---------------------------- MODULE Spec2Model ----------------------------
(***************************************************************************)
(* A model of the weekly NHL pick tracker (src/app.py): the week/date      *)
(* helpers, the Firestore helpers (picks, results, users collections),     *)
(* the scoring functions and the Streamlit pages that call them.           *)
(*                                                                         *)
(* Dates are proleptic Gregorian ordinals (date.toordinal()):              *)
(* 2025-11-01 is 739556, a Saturday.                                       *)
(***************************************************************************)
EXTENDS Integers, Sequences, FiniteSets, TLC

VARIABLES
    clock,      \* the system date, what date.today() returns
    session,    \* per browser tab: st.session_state["user"], or NoUser
    view,       \* per browser tab: what the last script run rendered
    picks,      \* Firestore collection "picks":   doc id -> document
    results,    \* Firestore collection "results": doc id -> document
    users,      \* Firestore collection "users":   doc id -> document
    call,       \* the last helper call applied (arguments and return value),
                \* or the picks page run that was the last step
    saves,      \* number of save_user_picks calls applied so far
    cal         \* the calendar helpers applied to one date

vars == <<clock, session, view, picks, results, users, call, saves, cal>>

(***************************************************************************)
(* Bounds of the model.                                                    *)
(***************************************************************************)
MaxDay == 55        \* the calendar helpers are applied to 56 consecutive dates
MaxTicks == 2       \* the clock advances at most this many days
MaxSaves == 2       \* at most this many direct save_user_picks calls

(***************************************************************************)
(* Python values.                                                          *)
(***************************************************************************)
None == "<None>"
EmptyDict == [k \in {} |-> None]

\* dict.get(key, default)
DictGet(d, k, default) == IF k \in DOMAIN d THEN d[k] ELSE default

\* The keys of a dict as a sequence (iteration order; any fixed order).
RECURSIVE SeqOf(_)
SeqOf(S) == IF S = {} THEN <<>>
            ELSE LET x == CHOOSE y \in S : TRUE IN <<x>> \o SeqOf(S \ {x})

(***************************************************************************)
(* WEEK / DATE HELPERS                                                     *)
(***************************************************************************)
\* date.weekday(): Monday = 0, ..., Saturday = 5, Sunday = 6
weekday(d) == (d + 6) % 7

\* date.isoformat() for the dates 2025-10-01 .. 2026-01-31: <<YYYY, MM, DD>>
isoformat(d) ==
    IF d < 739556 THEN <<2025, 10, d - 739524>>
    ELSE IF d < 739586 THEN <<2025, 11, d - 739555>>
    ELSE IF d < 739617 THEN <<2025, 12, d - 739585>>
    ELSE <<2026, 1, d - 739616>>

get_next_sunday(today) ==
    LET days_until_sunday == (6 - weekday(today)) % 7
    IN  IF days_until_sunday = 0 THEN today + 7
        ELSE today + days_until_sunday

get_week_sunday_monday_based(today) ==
    today - weekday(today)

get_week_sunday_for_current_games(today) ==
    LET days_since_sunday == (weekday(today) + 1) % 7
    IN  today - days_since_sunday

get_picks_week_sunday(today) ==
    IF weekday(today) = 5 THEN get_next_sunday(today)
    ELSE get_week_sunday_for_current_games(today)

get_week_id(sunday) == isoformat(sunday)

get_week_date_range(sunday) == <<sunday, sunday + 6>>

is_pick_editing_open_friday(today) == weekday(today) = 4

is_pick_editing_open(today) == weekday(today) = 5

(***************************************************************************)
(* The calendar helpers applied to a date drawn from CalDates.             *)
(***************************************************************************)
CalDates == 739556 .. (739556 + MaxDay)

CalInit == cal \in [d : CalDates, applied : {FALSE}]

CalApply ==
    /\ ~cal.applied
    /\ cal' = [d |-> cal.d, applied |-> TRUE,
               next_sunday |-> get_next_sunday(cal.d),
               current_sunday |-> get_week_sunday_for_current_games(cal.d),
               picks_sunday |-> get_picks_week_sunday(cal.d),
               week_id |-> get_week_id(get_picks_week_sunday(cal.d)),
               editing_open |-> is_pick_editing_open(cal.d)]

CalPick ==
    /\ cal.applied
    /\ \E d \in CalDates : cal' = [d |-> d, applied |-> FALSE]


(***************************************************************************)
(* SCHEDULE (CSV) HELPERS.  The CSV file is data outside the repository;   *)
(* the model reads a two-game table, both games in the week that starts    *)
(* on Sunday 2025-11-23.                                                   *)
(***************************************************************************)
load_schedule ==
    { [date |-> 739579, game_id |-> 1, home_team |-> "Bruins", away_team |-> "Leafs"],
      [date |-> 739581, game_id |-> 2, home_team |-> "Oilers", away_team |-> "Jets"] }

get_week_games(start_date, end_date) ==
    { row \in load_schedule : row.date >= start_date /\ row.date <= end_date }

\* str(game_id) for the ids 0..9
str(n) == <<"0", "1", "2", "3", "4", "5", "6", "7", "8", "9">>[n + 1]

\* int(game_id_str): whether it returns (TRUE) or raises ValueError (FALSE)
int_parses(s) == \E n \in 0..9 : str(n) = s

\* int(game_id_str) where it returns
int(s) == CHOOSE n \in 0..9 : str(n) = s

(***************************************************************************)
(* FIRESTORE HELPERS.  A collection is a function from the ids of its      *)
(* documents to the documents; a missing id is a document that does not    *)
(* exist.  The picks document id f"{week_id}_{uid}" is the pair            *)
(* <<week_id, uid>>: week_id has a fixed width, so the pair and the string *)
(* determine each other.  updated_at (a server timestamp) is left out.     *)
(***************************************************************************)
WeekIds == {get_week_id(739578), get_week_id(739585)}
GameKeys == {"1", "2", "x"}

\* DocumentReference.set(data, merge=True) on a map of leaf values: the
\* fields of data replace those of the stored map, the others stay.  An
\* empty map is itself a leaf: it replaces the stored map.
MergeLeaves(old, new) ==
    IF DOMAIN new = {} THEN new
    ELSE [f \in DOMAIN old \cup DOMAIN new |->
              IF f \in DOMAIN new THEN new[f] ELSE old[f]]

\* set(merge=True) on the "picks" field, a map of maps
MergePicksField(old, new) ==
    IF DOMAIN new = {} THEN new
    ELSE [k \in DOMAIN old \cup DOMAIN new |->
              IF k \notin DOMAIN new THEN old[k]
              ELSE IF k \notin DOMAIN old THEN new[k]
              ELSE MergeLeaves(old[k], new[k])]

ensure_user_doc(uid, display_name) ==
    IF uid \in DOMAIN users THEN users
    ELSE [u \in DOMAIN users \cup {uid} |->
              IF u = uid THEN [display_name |-> display_name] ELSE users[u]]

\* load_user_picks on a given state of the picks collection
LoadFrom(collection, uid, week_id) ==
    LET doc_id == <<week_id, uid>>
    IN  IF doc_id \in DOMAIN collection
        THEN DictGet(collection[doc_id], "picks", EmptyDict)
        ELSE EmptyDict

load_user_picks(uid, week_id) == LoadFrom(picks, uid, week_id)

\* The picks collection after save_user_picks(uid, week_id, new_picks)
save_user_picks(uid, week_id, new_picks) ==
    LET doc_id == <<week_id, uid>>
    IN  [id \in DOMAIN picks \cup {doc_id} |->
            IF id # doc_id THEN picks[id]
            ELSE IF doc_id \notin DOMAIN picks
                 THEN [uid |-> uid, week_id |-> week_id, picks |-> new_picks]
                 ELSE [uid |-> uid, week_id |-> week_id,
                       picks |-> MergePicksField(picks[doc_id].picks, new_picks)]]

\* the query without its where() filter: every picks document
get_all_picks_unfiltered(week_id) == DOMAIN picks

\* The ids of the documents of the query where("week_id", "==", week_id)
get_all_picks_for_week(week_id) ==
    { id \in DOMAIN picks : picks[id].week_id = week_id }

get_game_result(game_id) ==
    IF str(game_id) \notin DOMAIN results THEN None
    ELSE DictGet(results[str(game_id)], "winner", None)

\* set_game_result(game_id, winner, meta) on a given state of the results
\* collection
SetResultIn(collection, game_id, winner, meta) ==
    LET doc_id == str(game_id)
        data == [f \in {"winner"} \cup DOMAIN meta |->
                     IF f = "winner" THEN winner ELSE meta[f]]
    IN  [id \in DOMAIN collection \cup {doc_id} |->
            IF id # doc_id THEN collection[id]
            ELSE IF doc_id \notin DOMAIN collection THEN data
                 ELSE MergeLeaves(collection[doc_id], data)]

\* The results collection after set_game_result(game_id, winner, meta)
set_game_result(game_id, winner, meta) ==
    SetResultIn(results, game_id, winner, meta)

(***************************************************************************)
(* SCORING / LEADERBOARDS.  A scoring pass returns the scores dict and, as *)
(* a record of what it did, the game ids it passed to get_game_result, in  *)
(* call order.                                                             *)
(***************************************************************************)
\* every looked-up winner taken as set
FalsyNever(winner) == FALSE

\* "if not winner": None and the empty string are falsy
Falsy(winner) == winner = None \/ winner = ""

\* users/{uid}: the display name, uid when there is no profile
DisplayName(uid) ==
    IF uid \in DOMAIN users THEN DictGet(users[uid], "display_name", uid)
    ELSE uid

\* a pass that remembers the games it has resolved
LookedCached(acc, game_id) ==
    IF \E i \in 1..Len(acc.lookups) : acc.lookups[i] = game_id THEN acc
    ELSE [acc EXCEPT !.lookups = Append(@, game_id)]

\* "winner = get_game_result(game_id)": one read of the results collection
Looked(acc, game_id) == [acc EXCEPT !.lookups = Append(@, game_id)]

\* total counted only for the picks that miss
GradeMissesOnly(acc, info, winner) ==
    IF info.choice = winner THEN [acc EXCEPT !.correct = @ + 1]
    ELSE [acc EXCEPT !.total = @ + 1]

\* "total += 1; if info["choice"] == winner: correct += 1"
Grade(acc, info, winner) ==
    [acc EXCEPT !.total = @ + 1,
                !.correct = IF info.choice = winner THEN @ + 1 ELSE @]

\* The loop "for game_id_str, info in user_picks.items()" over the items
\* left, from the counts so far
RECURSIVE ScorePicks(_, _, _)
ScorePicks(items, user_picks, acc) ==
    IF items = <<>> THEN acc
    ELSE LET game_id_str == Head(items)
             info == user_picks[game_id_str]
         IN  IF ~int_parses(game_id_str)
             THEN ScorePicks(Tail(items), user_picks, acc)
             ELSE LET game_id == int(game_id_str)
                      winner == get_game_result(game_id)
                  IN  IF Falsy(winner)
                      THEN ScorePicks(Tail(items), user_picks, Looked(acc, game_id))
                      ELSE ScorePicks(Tail(items), user_picks,
                                      Grade(Looked(acc, game_id), info, winner))

\* scores[uid] = value
DictSet(d, k, v) ==
    [x \in DOMAIN d \cup {k} |-> IF x = k THEN v ELSE d[x]]

\* The loop "for doc in picks_docs" of compute_weekly_scores
RECURSIVE WeeklyLoop(_, _)
WeeklyLoop(docs, pass) ==
    IF docs = <<>> THEN pass
    ELSE LET data == picks[Head(docs)]
             uid == data.uid
             user_picks == DictGet(data, "picks", EmptyDict)
             counted == ScorePicks(SeqOf(DOMAIN user_picks), user_picks,
                            [correct |-> 0, total |-> 0, lookups |-> pass.lookups])
         IN  WeeklyLoop(Tail(docs),
                 [scores |-> DictSet(pass.scores, uid,
                                 [display_name |-> DisplayName(uid),
                                  correct |-> counted.correct,
                                  total |-> counted.total]),
                  lookups |-> counted.lookups])

WeeklyPass(week_id) ==
    LET picks_docs == SeqOf(get_all_picks_for_week(week_id))
    IN  IF picks_docs = <<>> THEN [scores |-> EmptyDict, lookups |-> <<>>]
        ELSE WeeklyLoop(picks_docs, [scores |-> EmptyDict, lookups |-> <<>>])

compute_weekly_scores(week_id) == WeeklyPass(week_id).scores

\* The loop "for doc in all_picks" of compute_all_time_scores
RECURSIVE AllTimeLoop(_, _)
AllTimeLoop(docs, pass) ==
    IF docs = <<>> THEN pass
    ELSE LET data == picks[Head(docs)]
             uid == data.uid
             start == IF uid \in DOMAIN pass.scores THEN pass.scores[uid]
                      ELSE [display_name |-> DisplayName(uid),
                            correct |-> 0, total |-> 0]
             user_picks == DictGet(data, "picks", EmptyDict)
             counted == ScorePicks(SeqOf(DOMAIN user_picks), user_picks,
                            [correct |-> start.correct, total |-> start.total,
                             lookups |-> pass.lookups])
         IN  AllTimeLoop(Tail(docs),
                 [scores |-> DictSet(pass.scores, uid,
                                 [display_name |-> start.display_name,
                                  correct |-> counted.correct,
                                  total |-> counted.total]),
                  lookups |-> counted.lookups])

AllTimePass ==
    AllTimeLoop(SeqOf(DOMAIN picks), [scores |-> EmptyDict, lookups |-> <<>>])

compute_all_time_scores == AllTimePass.scores

(***************************************************************************)
(* The helpers applied directly, to arguments drawn from bounded sets:     *)
(* save_user_picks to any picks dict over GameKeys (the choice one of the  *)
(* home team, or for game "1" a team that does not play it),               *)
(* set_game_result to either game, and the two scoring passes.             *)
(***************************************************************************)
Row(game_id) == CHOOSE row \in load_schedule : row.game_id = game_id

PickOf(game_date, home_team, away_team, choice) ==
    [game_date |-> isoformat(game_date), home_team |-> home_team,
     away_team |-> away_team, choice |-> choice]

PickChoices(k) ==
    IF k = "1"
    THEN { PickOf(Row(1).date, Row(1).home_team, Row(1).away_team, c) :
             c \in {Row(1).home_team, "Habs"} }
    ELSE IF k = "2"
    THEN { PickOf(Row(2).date, Row(2).home_team, Row(2).away_team, Row(2).home_team) }
    ELSE { PickOf(739580, "Kraken", "Stars", "Kraken") }

PicksDicts ==
    UNION { { P \in [S -> UNION { PickChoices(k) : k \in GameKeys }] :
                \A k \in S : P[k] \in PickChoices(k) } : S \in SUBSET GameKeys }

\* The (uid, week_id) pairs picks are saved under: two users in one week,
\* one of them in a second week too
SaveTargets ==
    { <<"u1", get_week_id(739578)>>, <<"u2", get_week_id(739578)>>,
      <<"u1", get_week_id(739585)>> }

NoCall == [op |-> "none"]

StoreInit ==
    /\ picks = EmptyDict
    /\ results = EmptyDict
    /\ users = [u \in {"u1"} |-> [display_name |-> "Ann"]]
    /\ call = NoCall
    /\ saves = 0
    /\ clock = 739576
    /\ session = EmptyDict
    /\ view = EmptyDict
    /\ cal = [d |-> 739556, applied |-> FALSE]

SaveUserPicks ==
    /\ saves < MaxSaves
    /\ \E target \in SaveTargets, new_picks \in PicksDicts :
          /\ picks' = save_user_picks(target[1], target[2], new_picks)
          /\ call' = [op |-> "save", uid |-> target[1], week_id |-> target[2],
                      picks |-> new_picks]
    /\ saves' = saves + 1
    /\ UNCHANGED <<clock, session, view, results, users, cal>>

SetGameResult ==
    /\ \E row \in load_schedule :
          \E winner \in {None, row.home_team, row.away_team} :
          results' = set_game_result(row.game_id, winner,
                         [date |-> isoformat(row.date), home_team |-> row.home_team,
                          away_team |-> row.away_team])
    /\ call' = NoCall
    /\ UNCHANGED <<clock, session, view, picks, users, saves, cal>>

ComputeWeeklyScores ==
    /\ \E week_id \in WeekIds :
          call' = [op |-> "weekly", week_id |-> week_id,
                   ret |-> compute_weekly_scores(week_id),
                   lookups |-> WeeklyPass(week_id).lookups]
    /\ UNCHANGED <<clock, session, view, picks, results, users, saves, cal>>

ComputeAllTimeScores ==
    /\ call' = [op |-> "all_time", ret |-> compute_all_time_scores,
                lookups |-> AllTimePass.lookups]
    /\ UNCHANGED <<clock, session, view, picks, results, users, saves, cal>>

StoreNext ==
    \/ SaveUserPicks
    \/ SetGameResult
    \/ ComputeWeeklyScores
    \/ ComputeAllTimeScores

SpecStore == StoreInit /\ [][StoreNext]_vars

CalFullInit ==
    /\ CalInit
    /\ picks = EmptyDict
    /\ results = EmptyDict
    /\ users = EmptyDict
    /\ call = NoCall
    /\ saves = 0
    /\ clock = 739576
    /\ session = EmptyDict
    /\ view = EmptyDict

CalNext ==
    \/ CalApply /\ UNCHANGED <<clock, session, view, picks, results, users, call, saves>>
    \/ CalPick /\ UNCHANGED <<clock, session, view, picks, results, users, call, saves>>

SpecCal == CalFullInit /\ [][CalNext]_vars

(***************************************************************************)
(* The app: browser tabs, each a Streamlit session that reruns main() on   *)
(* every interaction.  One action is one script run.  Firebase Auth knows  *)
(* two accounts, the admin's and another user's.                           *)
(***************************************************************************)
ADMIN_EMAIL == "emilyropeter@gmail.com"

Tabs == {"tab1", "tab2"}

Accounts ==
    { [uid |-> "u1", email |-> ADMIN_EMAIL],
      [uid |-> "u2", email |-> "fan@example.com"] }

NoUser == [uid |-> None, email |-> None]

\* What the user has set the radio of each listed game to
WidgetInputs ==
    { [k \in {str(row.game_id) : row \in load_schedule} |-> c] :
          c \in {"untouched", "away"} }

\* Documents in the picks collection when the app starts: none, or one
\* PickSet of u2 for the week of 2025-11-23
StoredAtStart ==
    { EmptyDict,
      [id \in {<<get_week_id(739578), "u2">>} |->
          [uid |-> "u2", week_id |-> get_week_id(739578),
           picks |-> [k \in {"1"} |->
                         PickOf(Row(1).date, Row(1).home_team,
                                Row(1).away_team, Row(1).home_team)]]] }

\* The app starts on Saturday 2025-11-22
Init ==
    /\ clock = 739577
    /\ session = [t \in Tabs |-> NoUser]
    /\ view = [t \in Tabs |-> [page |-> "none"]]
    /\ picks \in StoredAtStart
    /\ results = EmptyDict
    /\ users = EmptyDict
    /\ call = NoCall
    /\ saves = 0
    /\ cal = [d |-> 739556, applied |-> FALSE]

\* The system date moves on to the next day
Tick ==
    /\ clock < 739577 + MaxTicks
    /\ clock' = clock + 1
    /\ call' = NoCall
    /\ UNCHANGED <<session, view, picks, results, users, saves, cal>>

\* auth_widget with the button pressed and Firebase Auth accepting the
\* credentials (a rejected request changes nothing)
auth_widget(t) ==
    \E mode \in {"Login", "Sign up"}, account \in Accounts,
       display_name \in {"", "Ann"} :
        /\ session' = [session EXCEPT ![t] = account]
        /\ users' = ensure_user_doc(account.uid,
                        IF mode = "Sign up" /\ display_name # ""
                        THEN display_name ELSE account.email)
        /\ view' = [view EXCEPT ![t] = [page |-> "auth"]]
        /\ call' = NoCall
        /\ UNCHANGED <<clock, picks, results, saves, cal>>

logout_widget(t) ==
    /\ session[t] # NoUser
    /\ session' = [session EXCEPT ![t] = NoUser]
    /\ view' = [view EXCEPT ![t] = [page |-> "login_prompt"]]
    /\ call' = NoCall
    /\ UNCHANGED <<clock, picks, results, users, saves, cal>>

\* "today = datetime.date(2025, 11, 25)": datetime is the class imported by
\* "from datetime import datetime", so datetime.date is its instance method
\* and the call raises TypeError
picks_page_today == [raised |-> TRUE]

\* picks_page from "week_sunday = ..." on, for a given today and
\* editing_open: the script run of tab t with the radios as in widget and
\* the Save button clicked or not
picks_page_body(t, widget, clicked, today, editing_open) ==
    LET user == session[t]
        week_sunday == get_picks_week_sunday(today)
        week_id == get_week_id(week_sunday)
        range == get_week_date_range(week_sunday)
        week_games == get_week_games(range[1], range[2])
        user_picks == load_user_picks(user.uid, week_id)
        RowOf(k) == CHOOSE row \in week_games : str(row.game_id) = k
        week_keys == { str(row.game_id) : row \in week_games }
        Radio(k) ==
            LET options == <<RowOf(k).home_team, RowOf(k).away_team>>
                default_choice == IF k \in DOMAIN user_picks
                                  THEN user_picks[k].choice ELSE None
                default_index == IF default_choice = options[2] THEN 2 ELSE 1
            IN  IF widget[k] = "away" THEN options[2] ELSE options[default_index]
        all_picks ==
            [k \in DOMAIN user_picks \cup (IF editing_open THEN week_keys ELSE {}) |->
                IF editing_open /\ k \in week_keys
                THEN PickOf(RowOf(k).date, RowOf(k).home_team,
                            RowOf(k).away_team, Radio(k))
                ELSE user_picks[k]]
        saved == week_games # {} /\ editing_open /\ clicked
    IN  /\ picks' = IF saved THEN save_user_picks(user.uid, week_id, all_picks)
                    ELSE picks
        /\ view' = [view EXCEPT ![t] =
                       [page |-> "picks", raised |-> FALSE, run_clock |-> clock,
                        widget |-> widget, clicked |-> clicked, today |-> today,
                        week_id |-> week_id, editing_open |-> editing_open,
                        no_games |-> week_games = {}, saved |-> saved]]

\* picks_page reading the system date, with the Save button never locked
picks_page_ungated(t, widget, clicked) ==
    picks_page_body(t, widget, clicked, clock, TRUE)

picks_page(t, widget, clicked) ==
    LET today == picks_page_today
    IN  IF today.raised
        THEN /\ view' = [view EXCEPT ![t] =
                            [page |-> "picks", raised |-> TRUE, run_clock |-> clock]]
             /\ picks' = picks
        ELSE picks_page_body(t, widget, clicked, today.value,
                             is_pick_editing_open(today.value))

\* Whether tab t shows the radios and the Save button: its last script run
\* was a picks page run that reached them
Editable(t) ==
    /\ view[t].page = "picks"
    /\ ~view[t].raised
    /\ view[t].editing_open
    /\ ~view[t].no_games

\* A script run of main() with "Make Picks" selected.  Only widgets that
\* are on the screen can have been touched.
PicksPage(t) ==
    /\ session[t] # NoUser
    /\ \E widget \in WidgetInputs, clicked \in BOOLEAN :
          /\ Editable(t) \/ (~clicked /\ \A k \in DOMAIN widget : widget[k] = "untouched")
          /\ picks_page(t, widget, clicked)
    /\ call' = [op |-> "picks_page", tab |-> t]
    /\ UNCHANGED <<clock, session, results, users, saves, cal>>

\* sorted(rows, key=lambda r: r["Points"], reverse=True): a stable sort
RECURSIVE SortedByPoints(_)
SortedByPoints(rows) ==
    IF rows = <<>> THEN <<>>
    ELSE LET best == CHOOSE i \in 1..Len(rows) :
                        /\ \A j \in 1..Len(rows) : rows[j].Points <= rows[i].Points
                        /\ \A j \in 1..(i - 1) : rows[j].Points < rows[i].Points
         IN  <<rows[best]>> \o
             SortedByPoints(SubSeq(rows, 1, best - 1) \o SubSeq(rows, best + 1, Len(rows)))

\* The table rows of a scores dict (the accuracy column is left out)
RECURSIVE Rows(_, _)
Rows(uids, scores) ==
    IF uids = <<>> THEN <<>>
    ELSE <<[Name |-> scores[Head(uids)].display_name,
            Points |-> scores[Head(uids)].correct,
            Graded |-> scores[Head(uids)].total]>> \o Rows(Tail(uids), scores)

leaderboard_page(t) ==
    LET today == clock
        scoring_week_sunday == get_week_sunday_for_current_games(today)
        week_id == get_week_id(scoring_week_sunday)
        weekly_scores == compute_weekly_scores(week_id)
        all_time_scores == compute_all_time_scores
    IN  view' = [view EXCEPT ![t] =
                    [page |-> "leaderboard", week_id |-> week_id,
                     weekly |-> SortedByPoints(Rows(SeqOf(DOMAIN weekly_scores),
                                                    weekly_scores)),
                     all_time |-> SortedByPoints(Rows(SeqOf(DOMAIN all_time_scores),
                                                      all_time_scores))]]

LeaderboardPage(t) ==
    /\ session[t] # NoUser
    /\ leaderboard_page(t)
    /\ call' = NoCall
    /\ UNCHANGED <<clock, session, picks, results, users, saves, cal>>

\* The loop "for game_id, winner in selections.items()" of the admin page
RECURSIVE SetWinners(_, _, _)
SetWinners(games, selections, collection) ==
    IF games = <<>> THEN collection
    ELSE LET row == Head(games)
         IN  SetWinners(Tail(games), selections,
                 SetResultIn(collection, row.game_id, selections[row.game_id],
                     [date |-> isoformat(row.date), home_team |-> row.home_team,
                      away_team |-> row.away_team]))

\* The script run of tab t with the date input at selected_date (the
\* action leaves it at its default, today), every
\* selectbox at the same option ("(no winner yet)", home or away), and the
\* form submitted or not
admin_set_winners_page(t, selected_date, option, submitted) ==
    LET day_games == { row \in load_schedule : row.date = selected_date }
        selections == [g \in { row.game_id : row \in day_games } |->
                          IF option = "(no winner yet)" THEN None
                          ELSE IF option = "away" THEN Row(g).away_team
                          ELSE Row(g).home_team]
    IN  IF session[t].email # ADMIN_EMAIL
        THEN /\ view' = [view EXCEPT ![t] = [page |-> "admin", denied |-> TRUE]]
             /\ results' = results
        ELSE /\ view' = [view EXCEPT ![t] =
                            [page |-> "admin", denied |-> FALSE,
                             saved |-> day_games # {} /\ submitted]]
             /\ results' = IF day_games # {} /\ submitted
                           THEN SetWinners(SeqOf(day_games), selections, results)
                           ELSE results

\* main() lists the page only when user["email"] == ADMIN_EMAIL
AdminSetWinnersPage(t) ==
    /\ session[t] # NoUser
    /\ session[t].email = ADMIN_EMAIL
    /\ \E selected_date \in {clock},
          option \in {"(no winner yet)", "home", "away"}, submitted \in BOOLEAN :
          admin_set_winners_page(t, selected_date, option, submitted)
    /\ call' = NoCall
    /\ UNCHANGED <<clock, session, picks, users, saves, cal>>

Next ==
    \/ Tick
    \/ \E t \in Tabs : auth_widget(t)
    \/ \E t \in Tabs : logout_widget(t)
    \/ \E t \in Tabs : PicksPage(t)
    \/ \E t \in Tabs : LeaderboardPage(t)
    \/ \E t \in Tabs : AdminSetWinnersPage(t)

Spec == Init /\ [][Next]_vars

(***************************************************************************)
(* Picks page properties (under Spec).                                     *)
(***************************************************************************)
Saturday(d) == weekday(d) = 5

PickSetChanged(id) ==
    \/ id \notin DOMAIN picks
    \/ id \notin DOMAIN picks'
    \/ picks'[id].picks # picks[id].picks

\* C1: the stored PickSet of a (week_id, user_id) pair changes only in a
\* picks page run whose today is a Saturday and whose week_id is
\* get_week_id(get_picks_week_sunday(today)); every other step of the app,
\* on any day, leaves it unchanged.
C1_ChangesOnlyInOpenWindow ==
    [][\A id \in DOMAIN picks \cup DOMAIN picks' :
          PickSetChanged(id) =>
              /\ call'.op = "picks_page"
              /\ ~view'[call'.tab].raised
              /\ is_pick_editing_open(view'[call'.tab].today)
              /\ id = <<get_week_id(get_picks_week_sunday(view'[call'.tab].today)),
                        session[call'.tab].uid>>]_vars

\* a picks page run, on a day that is not a Saturday, of a user who has a
\* stored PickSet
C1_Witness ==
    /\ call.op = "picks_page"
    /\ ~Saturday(clock)
    /\ view[call.tab].run_clock = clock
    /\ \E id \in DOMAIN picks : id[2] = session[call.tab].uid

\* C2: whenever the current date is a Saturday, a logged-in user's picks
\* page run takes its week and editing-window state from that date, so
\* editing is open and Save is reachable, and a pick then saved is what
\* load_user_picks returns for the week of get_picks_week_sunday(date).
C2_SaturdayRunIsOpen ==
    \A t \in Tabs :
        view[t].page = "picks" /\ Saturday(view[t].run_clock) =>
            /\ ~view[t].raised
            /\ view[t].today = view[t].run_clock
            /\ view[t].editing_open
            /\ view[t].week_id = get_week_id(get_picks_week_sunday(view[t].run_clock))
            /\ (call = [op |-> "picks_page", tab |-> t] /\ view[t].saved =>
                   <<view[t].week_id, session[t].uid>> \in DOMAIN picks)

\* C10: two sessions of the same user on the picks page in the open window
\* are load-edit-save sessions that resolve last-write-wins: both loaded
\* the PickSet and offer Save, and after the later save the stored choice
\* of each game it covers is the one chosen in that session.
C10_LastWriteWins ==
    \A t1, t2 \in Tabs :
        /\ t1 # t2
        /\ session[t1] = session[t2]
        /\ view[t1].page = "picks" /\ Saturday(view[t1].run_clock)
        /\ view[t2].page = "picks" /\ Saturday(view[t2].run_clock)
        /\ call = [op |-> "picks_page", tab |-> t2]
        => /\ ~view[t1].raised /\ view[t1].editing_open
           /\ ~view[t2].raised /\ view[t2].editing_open
           /\ (view[t2].saved =>
                  \A k \in DOMAIN view[t2].widget :
                      LET stored == load_user_picks(session[t2].uid, view[t2].week_id)
                      IN  /\ k \in DOMAIN stored
                          /\ (view[t2].widget[k] = "away" =>
                                 stored[k].choice = stored[k].away_team))

(***************************************************************************)
(* Calendar properties (under SpecCal).                                    *)
(***************************************************************************)
\* C6: for every date d, get_picks_week_sunday(d) falls on a Sunday, and
\* get_week_sunday_for_current_games(d) <= d < that Sunday + 7 days, with
\* get_week_sunday_for_current_games(d) = d when d is a Sunday.
C6_WeekSundays ==
    cal.applied =>
        /\ weekday(cal.picks_sunday) = 6
        /\ cal.current_sunday <= cal.d
        /\ cal.d < cal.current_sunday + 7
        /\ (weekday(cal.d) = 6 => cal.current_sunday = cal.d)

C6_Witness ==
    /\ cal.applied
    /\ weekday(cal.d) = 6
    /\ cal.current_sunday = cal.d
    /\ cal.picks_sunday = cal.d

\* C7 as stated: on a Saturday get_picks_week_sunday(today) is the next
\* Sunday, 7 days later than today, and is_pick_editing_open(today) is true.
C7_SevenDaysLater ==
    cal.applied /\ weekday(cal.d) = 5 =>
        /\ cal.picks_sunday = cal.next_sunday
        /\ cal.picks_sunday = cal.d + 7
        /\ cal.editing_open

\* C7 amended: on a Saturday get_picks_week_sunday(today) is the next
\* Sunday, which is the day after today (1 day later, not 7), and
\* is_pick_editing_open(today) is true.
C7_NextDay ==
    cal.applied /\ weekday(cal.d) = 5 =>
        /\ cal.picks_sunday = cal.next_sunday
        /\ cal.picks_sunday = cal.d + 1
        /\ weekday(cal.picks_sunday) = 6
        /\ cal.editing_open

C7_Witness ==
    /\ cal.applied
    /\ weekday(cal.d) = 5
    /\ cal.picks_sunday = cal.d + 1
    /\ cal.editing_open

(***************************************************************************)
(* Store and scoring properties (under SpecStore).                         *)
(***************************************************************************)
\* The recorded winner of the game a pick is stored under, None when the
\* results collection holds no winner for it
GameWinner(k) ==
    IF k \in DOMAIN results /\ "winner" \in DOMAIN results[k]
    THEN results[k].winner ELSE None

Scoring == call.op \in {"weekly", "all_time"}

\* The picks documents a scoring call reads
ScopeDocs ==
    IF call.op = "weekly"
    THEN { id \in DOMAIN picks : id[1] = call.week_id }
    ELSE DOMAIN picks

\* The stored picks of uid in the scope of the scoring call: <<doc id, key>>
ScopePicks(uid) ==
    { p \in ScopeDocs \X GameKeys :
          p[1][2] = uid /\ p[2] \in DOMAIN picks[p[1]].picks }

StoredPick(p) == picks[p[1]].picks[p[2]]

\* C3: compute_weekly_scores(week_id) has one entry per user with a PickSet
\* in the week; its total is the number of the user's picks whose game has
\* a decided winner, its correct the number of those whose choice equals
\* the winner; picks on undecided games add to neither.
C3_WeeklyCounts ==
    call.op = "weekly" =>
        /\ DOMAIN call.ret = { id[2] : id \in ScopeDocs }
        /\ \A uid \in DOMAIN call.ret :
              LET P == load_user_picks(uid, call.week_id)
              IN  /\ call.ret[uid].total =
                        Cardinality({ k \in DOMAIN P : GameWinner(k) # None })
                  /\ call.ret[uid].correct =
                        Cardinality({ k \in DOMAIN P :
                                        /\ GameWinner(k) # None
                                        /\ P[k].choice = GameWinner(k) })

\* a user scored with a correct pick, and a pick on a game whose result
\* document holds winner None
C3_Witness ==
    /\ call.op = "weekly"
    /\ \E uid \in DOMAIN call.ret :
          LET P == load_user_picks(uid, call.week_id)
          IN  /\ call.ret[uid].correct = 1
              /\ call.ret[uid].total = 1
              /\ \E k \in DOMAIN P : k \in DOMAIN results /\ GameWinner(k) = None
              /\ Cardinality(DOMAIN P) = 3

\* C4: in every UserScore of either scoring function,
\* correct <= total <= the number of picks the user has in the scored scope.
C4_CountsBounded ==
    Scoring =>
        \A uid \in DOMAIN call.ret :
            /\ call.ret[uid].correct <= call.ret[uid].total
            /\ call.ret[uid].total <= Cardinality(ScopePicks(uid))

C4_Witness ==
    /\ call.op = "all_time"
    /\ \E uid \in DOMAIN call.ret :
          /\ call.ret[uid].correct = 1
          /\ call.ret[uid].total = 2
          /\ Cardinality(ScopePicks(uid)) = 4
          /\ Cardinality({ p[1] : p \in ScopePicks(uid) }) = 2

Saved == call'.op = "save" /\ saves' = saves + 1

SavedAsMerged ==
    LET c == call'
        before == LoadFrom(picks, c.uid, c.week_id)
        after == LoadFrom(picks', c.uid, c.week_id)
    IN  /\ DOMAIN after = DOMAIN before \cup DOMAIN c.picks
        /\ \A k \in DOMAIN c.picks : after[k] = c.picks[k]
        /\ \A k \in DOMAIN before \ DOMAIN c.picks : after[k] = before[k]
        /\ DOMAIN picks' = DOMAIN picks \cup {<<c.week_id, c.uid>>}
        /\ \A id \in DOMAIN picks \ {<<c.week_id, c.uid>>} : picks'[id] = picks[id]

\* C5: after save_user_picks(uid, week_id, P), for any P,
\* load_user_picks(uid, week_id) returns P's pick for every game id in P,
\* still returns the picks stored under game ids not in P, and every other
\* (week_id, user_id) PickSet is unchanged.  (A save of an empty P replaces
\* the stored picks map by the empty map.)
C5_MergeAnyPicks == [][Saved => SavedAsMerged]_vars

\* How many times game_id was passed to get_game_result
Count(lookups, game_id) ==
    Cardinality({ i \in 1..Len(lookups) : lookups[i] = game_id })

\* C8 as stated: within one scoring pass the outcome of each distinct game
\* id is looked up at most once, however many users picked the game.
C8_OneLookupPerGame ==
    Scoring => \A game_id \in 0..9 : Count(call.lookups, game_id) <= 1

\* C8 amended: within one scoring pass the outcome of a game id is looked
\* up once for every stored pick in scope whose key int() reads as that
\* game id (so once per user who picked the game), and for no other reason.
C8_OneLookupPerPick ==
    Scoring =>
        \A game_id \in 0..9 :
            Count(call.lookups, game_id) =
                Cardinality({ p \in ScopeDocs \X GameKeys :
                                /\ p[2] \in DOMAIN picks[p[1]].picks
                                /\ p[2] = str(game_id) })

C8_Witness ==
    /\ call.op = "weekly"
    /\ Count(call.lookups, 1) = 2
    /\ Cardinality(DOMAIN call.ret) = 2

\* C9: a stored pick whose choice is neither its home nor its away team
\* adds to neither count, even when its game has a decided winner: total
\* counts only the decided picks with a valid choice.
C9_InvalidChoiceIgnored ==
    Scoring =>
        \A uid \in DOMAIN call.ret :
            call.ret[uid].total =
                Cardinality({ p \in ScopePicks(uid) :
                                /\ GameWinner(p[2]) # None
                                /\ StoredPick(p).choice \in
                                      {StoredPick(p).home_team, StoredPick(p).away_team} })

\* The week ids that have a PickSet of uid, and those that have any PickSet
WeeksOf(uid) == { picks[id].week_id : id \in { d \in DOMAIN picks : picks[d].uid = uid } }

StoredWeeks == { picks[id].week_id : id \in DOMAIN picks }

\* The sum over weeks of the field (correct or total) of uid's weekly score
RECURSIVE WeeklySum(_, _, _)
WeeklySum(weeks, uid, field) ==
    IF weeks = {} THEN 0
    ELSE LET w == CHOOSE x \in weeks : TRUE
         IN  compute_weekly_scores(w)[uid][field] + WeeklySum(weeks \ {w}, uid, field)

\* C11: the correct and total counts compute_all_time_scores returns for a
\* user are the sums, over the week ids that have a PickSet of that user, of
\* the counts compute_weekly_scores(week_id) returns for the user; and the
\* users of the all-time result are exactly the union of the users of the
\* weekly results.
C11_AllTimeIsSumOfWeeks ==
    call.op = "all_time" =>
        /\ DOMAIN call.ret =
              UNION { DOMAIN compute_weekly_scores(w) : w \in StoredWeeks }
        /\ \A uid \in DOMAIN call.ret :
              /\ call.ret[uid].correct = WeeklySum(WeeksOf(uid), uid, "correct")
              /\ call.ret[uid].total = WeeklySum(WeeksOf(uid), uid, "total")

\* an all-time pass over PickSets of one user in two weeks, with graded
\* picks in both and a miss among them
C11_Witness ==
    /\ call.op = "all_time"
    /\ \E uid \in DOMAIN call.ret :
          /\ Cardinality(WeeksOf(uid)) = 2
          /\ \A w \in WeeksOf(uid) : compute_weekly_scores(w)[uid].total >= 1
          /\ call.ret[uid].total = 3
          /\ call.ret[uid].correct = 2

=============================================================================
